---- MODULE Spec2Model ----
(***************************************************************************)
(* A state-machine model of AudioBlock (src/AudioBlock.cpp): one block     *)
(* instance on top of the native audio subsystem (PortAudio).  The native  *)
(* subsystem is the environment: its device catalog is chosen in Init and  *)
(* its fallible calls (initialize, open, start, stop, close) choose their  *)
(* result with \E.                                                          *)
(*                                                                         *)
(* Strings that the code inspects character by character (the device       *)
(* selector, the device names) are sequences of one-character strings.     *)
(***************************************************************************)
EXTENDS Integers, Sequences, FiniteSets, TLC

\* ------------------------------------------------------------------ bounds
MaxDevices == 2      \* the catalog holds 0..MaxDevices devices
MaxLen == 2          \* selectors of up to MaxLen characters (plus BigSelector)
MaxOpens == 2        \* native streams one run may open
MaxClock == 2        \* readings of the high resolution clock in one run
MaxSiblings == 2     \* other instances of AudioBlock alive at once

\* ------------------------------------------------------- native constants
paNoDevice == -1
paSampleFormatNotSupported == -9994
INT_MAX == 2147483647

\* ---------------------------------------------------------------- strings
Digits == {"0", "1", "9"}
Chars == {"0", "1", "a"}
StrsUpTo(n) == UNION {[1..k -> Chars] : k \in 0..n}
\* a decimal string whose value does not fit the native int
BigSelector == <<"9", "9", "9", "9", "9", "9", "9", "9", "9", "9">>
\* every short string, a name in the other case, and the one too big to parse
Selectors == StrsUpTo(MaxLen) \cup {<<"A">>, BigSelector}
\* one selector of every kind, for the runs that are about the stream
FewSelectors == {<< >>, <<"0">>, <<"9">>, <<"a">>, <<"A">>, BigSelector}

DigitValue(c) == CASE c = "0" -> 0 [] c = "1" -> 1 [] c = "9" -> 9

\* ::isdigit over the whole string (std::all_of is true of the empty range)
AllDigits(s) == \A i \in 1..Len(s) : s[i] \in Digits

\* std::stoi of an all-digit string: its value, or -1 where std::stoi throws
\* std::out_of_range because the value exceeds INT_MAX
RECURSIVE stoiFrom(_, _, _)
stoiFrom(s, i, acc) ==
    IF i > Len(s) THEN acc
    ELSE IF acc > (INT_MAX - DigitValue(s[i])) \div 10 THEN -1
    ELSE stoiFrom(s, i + 1, acc * 10 + DigitValue(s[i]))

stoi(s) == stoiFrom(s, 1, 0)

\* ------------------------------------------------------ the device catalog
DeviceNames == {<<"a">>, <<"1">>}
\* each default is the last device or none (the native no-device value)
Catalogs ==
    UNION {[names : [1..c -> DeviceNames],
            defaultInput : {paNoDevice, c - 1},
            defaultOutput : {paNoDevice, c - 1}] : c \in 0..MaxDevices}
\* for the runs that are about the stream: device i is named "a" when i = 0
\* and "1" otherwise, and both defaults are the last device or none
FewCatalogs ==
    {cat \in Catalogs :
        /\ \A i \in DOMAIN cat.names : cat.names[i] = (IF i = 1 THEN <<"a">> ELSE <<"1">>)
        /\ cat.defaultInput = cat.defaultOutput
        /\ cat.defaultInput \in {paNoDevice, Len(cat.names) - 1}}

\* --------------------------------------------------- constructor arguments
DTypes == {"float32", "int32", "int16", "int8", "uint8", "float64"}
ChanModes == {"INTERLEAVED", "PLANAR"}
CtorArgs == [isSink : BOOLEAN, dtype : DTypes, numChans : {2}, chanMode : ChanModes]
\* for the runs that are about the stream: one supported type, one unsupported
FewArgs == {a \in CtorArgs : a.dtype \in {"float32", "float64"}}
\* for the runs that are about the device selector, which reads isSink alone
DeviceArgs == {a \in CtorArgs : a.dtype = "int16" /\ a.chanMode = "INTERLEAVED"}

\* a sample format is the set of the bits of PaSampleFormat that are set:
\* "paFloat32", "paInt32", "paInt24", "paInt16", "paInt8", "paUInt8",
\* "paNonInterleaved".
\* What an uninitialized PaSampleFormat may hold
UninitFormats == {{"paInt16"}, {"paFloat32", "paInt32"}}
\* what an uninitialized PaDeviceIndex may hold
UninitDevices == {paNoDevice, 0, MaxDevices}

Rates == {44100, 12345}
SupportedRates == {44100}

VARIABLES
    catalog,        \* the native device catalog (fixed while initialized)
    args,           \* the constructor arguments of the instance
    phase,          \* "unconstructed", "live", "failed", "destroyed", "crashed"
    paInitCount,    \* the native subsystem's initialization count
    paStreams,      \* native streams: handle -> [st, closes]
    isSink, interleaved,
    streamParams,   \* [device, channelCount, sampleFormat, suggestedLatency]
    stream,         \* _stream: 0 is nullptr, else a native handle
    sendLabel, readyTime,
    reportLogger, reportStderror, backoffTime,
    clock,          \* the high resolution clock
    lastOp, lastArg, lastErr,   \* the last call, its argument, what it threw
    trace,          \* the native calls of the last call, in order
    resolved,       \* history: a setupDevice call of the instance has returned
    siblings        \* other live instances of AudioBlock in the process

vars == <<catalog, args, phase, paInitCount, paStreams, isSink, interleaved,
          streamParams, stream, sendLabel, readyTime, reportLogger,
          reportStderror, backoffTime, clock, lastOp, lastArg, lastErr, trace,
          resolved, siblings>>

\* ------------------------------------------------------- the native layer
Pa_GetDeviceCount == Len(catalog.names)

ValidDevice(i) == i \in 0..(Pa_GetDeviceCount - 1)

\* Pa_GetDeviceInfo: the descriptor of device i, or the null pointer when i is
\* out of range
Pa_GetDeviceInfo(i) ==
    IF ValidDevice(i)
    THEN [null |-> FALSE,
          name |-> catalog.names[i + 1],
          defaultLowInputLatency |-> 10 * (i + 1),
          defaultHighInputLatency |-> 30 * (i + 1),
          defaultLowOutputLatency |-> 10 * (i + 1) + 4,
          defaultHighOutputLatency |-> 30 * (i + 1) + 4]
    ELSE [null |-> TRUE]

Pa_GetDefaultInputDevice == catalog.defaultInput
Pa_GetDefaultOutputDevice == catalog.defaultOutput

\* Pa_GetSampleSize: bytes per sample of a format, the interleaving bit ignored
Pa_GetSampleSize(format) ==
    LET f == format \ {"paNonInterleaved"} IN
    CASE f = {"paFloat32"} -> 4
      [] f = {"paInt32"} -> 4
      [] f = {"paInt24"} -> 3
      [] f = {"paInt16"} -> 2
      [] f = {"paInt8"} -> 1
      [] f = {"paUInt8"} -> 1
      [] OTHER -> paSampleFormatNotSupported

\* Pa_IsFormatSupported on the one side that carries parameters
Pa_IsFormatSupported(params, sampRate) ==
    IF ~ValidDevice(params.device) THEN "paInvalidDevice"
    ELSE IF Pa_GetSampleSize(params.sampleFormat) < 0 THEN "paSampleFormatNotSupported"
    ELSE IF sampRate \notin SupportedRates THEN "paInvalidSampleRate"
    ELSE "paNoError"

StreamIsOpen(h) == h # 0 /\ paStreams[h].st \in {"opened", "active", "stopped"}
OpenHandles == {h \in 1..MaxOpens : StreamIsOpen(h)}
NumOpened == Cardinality({h \in 1..MaxOpens : paStreams[h].st # "none"})

\* the native close of one stream: it leaves the open list whatever the result
ClosedStream(s) == [st |-> "closed", closes |-> s.closes + 1]

\* Pa_Terminate on the streams ps: the last terminate closes every stream still open
Pa_Terminate(ps) ==
    IF paInitCount = 1
    THEN [h \in 1..MaxOpens |->
            IF ps[h].st \in {"opened", "active", "stopped"}
            THEN ClosedStream(ps[h]) ELSE ps[h]]
    ELSE ps

Call(fn, arg) == [fn |-> fn, arg |-> arg]

\* the exception class behind each message the code throws
ExceptionType(err) ==
    CASE err \in {"No devices available", "No matching device"} -> "Pothos::NotFoundException"
      [] err = "Device index out of range" -> "Pothos::RangeException"
      [] err = "stoi" -> "std::out_of_range"
      [] err = "unknown report mode" -> "Pothos::InvalidArgumentException"
      [] err = "none" -> "none"
      [] OTHER -> "Pothos::Exception"

\* -------------------------------------------------------------------- Init
NoStreams == [h \in 1..MaxOpens |-> [st |-> "none", closes |-> 0]]

InitWith(cats, as) ==
    /\ catalog \in cats
    /\ args \in as
    /\ phase = "unconstructed"
    /\ paInitCount = 0
    /\ paStreams = NoStreams
    /\ isSink = FALSE /\ interleaved = FALSE
    /\ streamParams = [device |-> 0, channelCount |-> 0, sampleFormat |-> {},
                       suggestedLatency |-> 0]
    /\ stream = 0
    /\ sendLabel = FALSE /\ readyTime = 0
    /\ reportLogger = FALSE /\ reportStderror = FALSE /\ backoffTime = 0
    /\ clock = 0
    /\ lastOp = "none" /\ lastArg = << >> /\ lastErr = "none" /\ trace = << >>
    /\ resolved = FALSE
    /\ siblings = 0

Init == InitWith(FewCatalogs, FewArgs)
InitCtor == InitWith(Catalogs, CtorArgs)
InitDevice == InitWith(Catalogs, DeviceArgs)

Returned(op, arg, err, tr) ==
    /\ lastOp' = op /\ lastArg' = arg /\ lastErr' = err /\ trace' = tr

\* ------------------------------------------------------------- constructor
\* lines 35-40: the chain of ifs over the dtype, starting from whatever the
\* uninitialized member holds, then the interleaving bit
SampleFormatOf(dtype, uninit, inter) ==
    LET f0 == uninit
        f1 == IF dtype = "float32" THEN {"paFloat32"} ELSE f0
        f2 == IF dtype = "int32" THEN {"paInt32"} ELSE f1
        f3 == IF dtype = "int16" THEN {"paInt16"} ELSE f2
        f4 == IF dtype = "int8" THEN {"paInt8"} ELSE f3
        f5 == IF dtype = "uint8" THEN {"paUInt8"} ELSE f4
    IN  IF ~inter THEN f5 \cup {"paNonInterleaved"} ELSE f5

\* a constructor that rejects an unsupported dtype after Pa_Initialize has
\* succeeded, and throws without a Pa_Terminate
AudioBlock_ctor_throwsAfterInit ==
    /\ phase = "unconstructed"
    /\ isSink' = args.isSink
    /\ stream' = 0
    /\ interleaved' = (args.chanMode = "INTERLEAVED")
    /\ sendLabel' = FALSE
    /\ reportLogger' = FALSE
    /\ reportStderror' = TRUE
    /\ \E initOk \in BOOLEAN :
         IF ~initOk
         THEN /\ phase' = "failed"
              /\ Returned("AudioBlock", << >>, "Pa_Initialize", <<Call("Pa_Initialize", "error")>>)
              /\ UNCHANGED <<paInitCount, streamParams>>
         ELSE /\ paInitCount' = paInitCount + 1
              /\ IF args.dtype \notin {"float32", "int32", "int16", "int8", "uint8"}
                 THEN /\ phase' = "failed"
                      /\ Returned("AudioBlock", << >>, "unsupported dtype",
                                  <<Call("Pa_Initialize", "ok")>>)
                      /\ UNCHANGED streamParams
                 ELSE /\ phase' = "live"
                      /\ \E d \in UninitDevices, u \in UninitFormats :
                           streamParams' =
                             [device |-> d,
                              channelCount |-> args.numChans,
                              sampleFormat |-> SampleFormatOf(args.dtype, u, interleaved'),
                              suggestedLatency |-> 0]
                      /\ Returned("AudioBlock", << >>, "none", <<Call("Pa_Initialize", "ok")>>)
    /\ UNCHANGED <<catalog, args, siblings, resolved, paStreams, readyTime, backoffTime,
                   clock>>

AudioBlock_ctor ==
    /\ phase = "unconstructed"
    /\ isSink' = args.isSink
    /\ stream' = 0
    /\ interleaved' = (args.chanMode = "INTERLEAVED")
    /\ sendLabel' = FALSE
    /\ reportLogger' = FALSE
    /\ reportStderror' = TRUE
    /\ \E initOk \in BOOLEAN :
         IF ~initOk
         THEN /\ phase' = "failed"
              /\ Returned("AudioBlock", << >>, "Pa_Initialize", <<Call("Pa_Initialize", "error")>>)
              /\ UNCHANGED <<paInitCount, streamParams>>
         ELSE /\ phase' = "live"
              /\ paInitCount' = paInitCount + 1
              /\ \E d \in UninitDevices, u \in UninitFormats :
                   streamParams' =
                     [device |-> d,
                      channelCount |-> args.numChans,
                      sampleFormat |-> SampleFormatOf(args.dtype, u, interleaved'),
                      suggestedLatency |-> 0]
              /\ Returned("AudioBlock", << >>, "none", <<Call("Pa_Initialize", "ok")>>)
    /\ UNCHANGED <<catalog, args, siblings, resolved, paStreams, readyTime, backoffTime, clock>>

\* -------------------------------------------------------------- destructor
\* a destructor that throws when the close fails, and so never terminates
AudioBlock_dtor_throwsOnClose ==
    /\ phase = "live"
    /\ phase' = "destroyed"
    /\ \E closeOk \in BOOLEAN :
         LET closing == stream # 0
             afterClose == IF closing
                           THEN [paStreams EXCEPT ![stream] = ClosedStream(@)]
                           ELSE paStreams
         IN  /\ (closing \/ closeOk)
             /\ IF closing /\ ~closeOk
                THEN /\ paStreams' = afterClose
                     /\ UNCHANGED paInitCount
                     /\ Returned("~AudioBlock", << >>, "Pa_CloseStream",
                                 <<Call("Pa_CloseStream", "error")>>)
                ELSE /\ paStreams' = Pa_Terminate(afterClose)
                     /\ paInitCount' = paInitCount - 1
                     /\ Returned("~AudioBlock", << >>, "none",
                                 (IF closing THEN <<Call("Pa_CloseStream", "ok")>> ELSE << >>)
                                 \o <<Call("Pa_Terminate", "ok")>>)
    /\ UNCHANGED <<catalog, args, siblings, resolved, isSink, interleaved, streamParams,
                   stream, sendLabel, readyTime, reportLogger, reportStderror,
                   backoffTime, clock>>

AudioBlock_dtor ==
    /\ phase = "live"
    /\ phase' = "destroyed"
    /\ \E closeOk \in BOOLEAN :
         LET closing == stream # 0
             afterClose == IF closing
                           THEN [paStreams EXCEPT ![stream] = ClosedStream(@)]
                           ELSE paStreams
             closeTrace == IF ~closing THEN << >>
                           ELSE IF closeOk THEN <<Call("Pa_CloseStream", "ok")>>
                           ELSE <<Call("Pa_CloseStream", "error"),
                                  Call("poco_error", "Pa_CloseStream")>>
         IN  /\ (closing \/ closeOk)
             /\ paStreams' = Pa_Terminate(afterClose)
             /\ paInitCount' = paInitCount - 1
             /\ Returned("~AudioBlock", << >>, "none",
                         closeTrace \o <<Call("Pa_Terminate", "ok")>>)
    /\ UNCHANGED <<catalog, args, siblings, resolved, isSink, interleaved, streamParams, stream, sendLabel,
                   readyTime, reportLogger, reportStderror, backoffTime, clock>>

\* --------------------------------------------------------- other instances
\* The constructor and the destructor of another instance in the same process,
\* as far as the shared native subsystem sees them (lines 27-31 and 54-58); the
\* streams of the other instances are not modelled.
Sibling_ctor ==
    /\ phase # "crashed"
    /\ siblings < MaxSiblings
    /\ \E initOk \in BOOLEAN :
         IF ~initOk
         THEN /\ Returned("AudioBlock (sibling)", << >>, "Pa_Initialize",
                          <<Call("Pa_Initialize", "error")>>)
              /\ UNCHANGED <<paInitCount, siblings>>
         ELSE /\ paInitCount' = paInitCount + 1
              /\ siblings' = siblings + 1
              /\ Returned("AudioBlock (sibling)", << >>, "none",
                          <<Call("Pa_Initialize", "ok")>>)
    /\ UNCHANGED <<catalog, args, resolved, phase, paStreams, isSink, interleaved,
                   streamParams, stream, sendLabel, readyTime, reportLogger,
                   reportStderror, backoffTime, clock>>

Sibling_dtor ==
    /\ phase # "crashed"
    /\ siblings > 0
    /\ siblings' = siblings - 1
    /\ paStreams' = Pa_Terminate(paStreams)
    /\ paInitCount' = paInitCount - 1
    /\ Returned("~AudioBlock (sibling)", << >>, "none", <<Call("Pa_Terminate", "ok")>>)
    /\ UNCHANGED <<catalog, args, resolved, phase, isSink, interleaved, streamParams,
                   stream, sendLabel, readyTime, reportLogger, reportStderror,
                   backoffTime, clock>>

\* ------------------------------------------------------------- setupDevice
\* lines 120-127: the indices whose device name equals the selector
NameMatches(deviceName) ==
    {i \in 0..(Pa_GetDeviceCount - 1) : Pa_GetDeviceInfo(i).name = deviceName}

\* a scan that keeps the last match instead of returning at the first
Min_last(S) == CHOOSE x \in S : \A y \in S : x >= y

Min(S) == CHOOSE x \in S : \A y \in S : x <= y

\* the native calls of the scan over indices i..last (the loop stops at a match)
RECURSIVE ScanTrace(_, _)
ScanTrace(i, deviceName) ==
    IF i >= Pa_GetDeviceCount THEN <<Call("Pa_GetDeviceCount", "")>>
    ELSE <<Call("Pa_GetDeviceCount", ""), Call("Pa_GetDeviceInfo", "")>>
         \o (IF Pa_GetDeviceInfo(i).name = deviceName THEN << >>
             ELSE ScanTrace(i + 1, deviceName))

\* a resolver that looks a selector up by name before reading it as a number
Classify_nameFirst(deviceName) ==
    IF deviceName = << >> THEN "default"
    ELSE IF NameMatches(deviceName) # {} THEN "name"
    ELSE IF AllDigits(deviceName) THEN "index"
    ELSE "name"

\* which of the three branches of lines 103-130 a selector takes
Classify(deviceName) ==
    IF deviceName = << >> THEN "default"
    ELSE IF AllDigits(deviceName) THEN "index"
    ELSE "name"

\* a resolver without the check of line 99
NoDevicesAvailable_unchecked == FALSE

\* line 99: the catalog is empty
NoDevicesAvailable == Pa_GetDeviceCount = 0

\* the outcome of setupDevice: the device it leaves, what it throws, its calls
SetupDeviceOutcome(deviceName) ==
    LET count == <<Call("Pa_GetDeviceCount", "")>>
        kind == Classify(deviceName)
        old == streamParams.device
    IN
    IF NoDevicesAvailable
    THEN [device |-> old, err |-> "No devices available", trace |-> count]
    ELSE IF kind = "default"
    THEN IF isSink
         THEN [device |-> Pa_GetDefaultOutputDevice, err |-> "none",
               trace |-> count \o <<Call("Pa_GetDefaultOutputDevice", "")>>]
         ELSE [device |-> Pa_GetDefaultInputDevice, err |-> "none",
               trace |-> count \o <<Call("Pa_GetDefaultInputDevice", "")>>]
    ELSE IF kind = "index"
    THEN IF stoi(deviceName) = -1
         THEN [device |-> old, err |-> "stoi", trace |-> count]
         ELSE IF stoi(deviceName) >= Pa_GetDeviceCount
         THEN [device |-> stoi(deviceName), err |-> "Device index out of range",
               trace |-> count \o count]
         ELSE [device |-> stoi(deviceName), err |-> "none", trace |-> count \o count]
    ELSE IF NameMatches(deviceName) # {}
    THEN [device |-> Min(NameMatches(deviceName)), err |-> "none",
          trace |-> count \o ScanTrace(0, deviceName)]
    ELSE [device |-> old, err |-> "No matching device",
          trace |-> count \o ScanTrace(0, deviceName)]

\* a setupDevice that starts from fresh stream parameters
setupDevice_resetsParams(deviceName) ==
    /\ phase = "live"
    /\ \E out \in {SetupDeviceOutcome(deviceName)} :
         /\ streamParams' = [device |-> out.device, channelCount |-> 0,
                             sampleFormat |-> {}, suggestedLatency |-> 0]
         /\ Returned("setupDevice", deviceName, out.err, out.trace)
         /\ resolved' = (resolved \/ out.err = "none")
    /\ UNCHANGED <<catalog, args, siblings, phase, paInitCount, paStreams, isSink,
                   interleaved, stream, sendLabel, readyTime, reportLogger,
                   reportStderror, backoffTime, clock>>

setupDevice(deviceName) ==
    /\ phase = "live"
    /\ \E out \in {SetupDeviceOutcome(deviceName)} :
         /\ streamParams' = [streamParams EXCEPT !.device = out.device]
         /\ Returned("setupDevice", deviceName, out.err, out.trace)
         /\ resolved' = (resolved \/ out.err = "none")
    /\ UNCHANGED <<catalog, args, siblings, phase, paInitCount, paStreams, isSink, interleaved,
                   stream, sendLabel, readyTime, reportLogger, reportStderror,
                   backoffTime, clock>>

\* ------------------------------------------------------------- setupStream
\* lines 141-142: the midpoint of the descriptor's latencies for the direction
SuggestedLatency(deviceInfo) ==
    IF isSink
    THEN (deviceInfo.defaultLowOutputLatency + deviceInfo.defaultHighOutputLatency) \div 2
    ELSE (deviceInfo.defaultLowInputLatency + deviceInfo.defaultHighInputLatency) \div 2

\* what a latency computed through a null descriptor may hold
GarbageLatencies == {0, 1}

\* the side that carries the stream parameters in the native calls
Side == IF isSink THEN "output" ELSE "input"

\* lines 146-170 without the throw of line 150: the open follows the format
\* check whatever the check reported
TryAndOpen_ignoresCheck(params, sampRate, before) ==
    LET requestedSize == Pa_GetSampleSize(params.sampleFormat)
        tr == before \o <<Call("Pa_GetSampleSize", ""), Call("Pa_IsFormatSupported", Side)>>
        h == NumOpened + 1
    IN
    /\ streamParams' = params
    /\ \E openOk \in BOOLEAN :
         IF ~openOk \/ ~ValidDevice(params.device)
         THEN /\ Returned("setupStream", <<sampRate>>, "Pa_OpenStream",
                          tr \o <<Call("Pa_OpenStream", Side)>>)
              /\ UNCHANGED <<stream, paStreams>>
         ELSE /\ stream' = h
              /\ paStreams' = [paStreams EXCEPT ![h] = [st |-> "opened", closes |-> 0]]
              /\ Returned("setupStream", <<sampRate>>,
                          IF Pa_GetSampleSize(params.sampleFormat) # requestedSize
                          THEN "Pa_GetSampleSize mismatch" ELSE "none",
                          tr \o <<Call("Pa_OpenStream", Side), Call("Pa_GetSampleSize", "")>>)

\* lines 146-170, with the latency already stored in params
TryAndOpen(params, sampRate, before) ==
    LET requestedSize == Pa_GetSampleSize(params.sampleFormat)
        supported == Pa_IsFormatSupported(params, sampRate)
        tr == before \o <<Call("Pa_GetSampleSize", ""), Call("Pa_IsFormatSupported", Side)>>
        h == NumOpened + 1
    IN
    /\ streamParams' = params
    /\ IF supported # "paNoError"
       THEN /\ Returned("setupStream", <<sampRate>>, "Pa_IsFormatSupported", tr)
            /\ UNCHANGED <<stream, paStreams>>
       ELSE \E openOk \in BOOLEAN :
              IF ~openOk
              THEN /\ Returned("setupStream", <<sampRate>>, "Pa_OpenStream",
                               tr \o <<Call("Pa_OpenStream", Side)>>)
                   /\ UNCHANGED <<stream, paStreams>>
              ELSE /\ stream' = h
                   /\ paStreams' = [paStreams EXCEPT ![h] = [st |-> "opened", closes |-> 0]]
                   /\ Returned("setupStream", <<sampRate>>,
                               IF Pa_GetSampleSize(params.sampleFormat) # requestedSize
                               THEN "Pa_GetSampleSize mismatch" ELSE "none",
                               tr \o <<Call("Pa_OpenStream", Side), Call("Pa_GetSampleSize", "")>>)

setupStream(sampRate) ==
    /\ phase = "live"
    /\ NumOpened < MaxOpens
    /\ LET deviceInfo == Pa_GetDeviceInfo(streamParams.device)
           info == <<Call("Pa_GetDeviceInfo", "")>>
       IN
       IF deviceInfo.null
       THEN \* line 137 reads through a null descriptor: the process faults, or
            \* carries on with whatever the reads returned
            \/ /\ phase' = "crashed"
               /\ Returned("setupStream", <<sampRate>>, "fault", info)
               /\ UNCHANGED <<streamParams, stream, paStreams>>
            \/ /\ \E g \in GarbageLatencies :
                    TryAndOpen([streamParams EXCEPT !.suggestedLatency = g], sampRate, info)
               /\ UNCHANGED phase
       ELSE /\ TryAndOpen([streamParams EXCEPT !.suggestedLatency = SuggestedLatency(deviceInfo)],
                          sampRate, info \o <<Call("Pa_GetHostApiInfo", "")>>)
            /\ UNCHANGED phase
    /\ UNCHANGED <<catalog, args, siblings, resolved, paInitCount, isSink, interleaved, sendLabel, readyTime,
                   reportLogger, reportStderror, backoffTime, clock>>

\* ----------------------------------------------------------- report, backoff
Modes == {"LOGGER", "STDERROR", "DISABLED", "logger", ""}

\* a setReportMode that switches a report on and never the other one off
setReportMode_keepsOther(mode) ==
    /\ phase = "live"
    /\ IF mode \in {"LOGGER", "STDERROR", "DISABLED"}
       THEN /\ reportLogger' = (IF mode = "DISABLED" THEN FALSE
                                ELSE reportLogger \/ mode = "LOGGER")
            /\ reportStderror' = (IF mode = "DISABLED" THEN FALSE
                                  ELSE reportStderror \/ mode = "STDERROR")
            /\ Returned("setReportMode", <<mode>>, "none", << >>)
       ELSE /\ Returned("setReportMode", <<mode>>, "unknown report mode", << >>)
            /\ UNCHANGED <<reportLogger, reportStderror>>
    /\ UNCHANGED <<catalog, args, siblings, resolved, phase, paInitCount, paStreams, isSink,
                   interleaved, streamParams, stream, sendLabel, readyTime, backoffTime,
                   clock>>

\* a setReportMode that assigns the two flags before it validates the mode
setReportMode_assignsFirst(mode) ==
    /\ phase = "live"
    /\ reportLogger' = (mode = "LOGGER")
    /\ reportStderror' = (mode = "STDERROR")
    /\ Returned("setReportMode", <<mode>>,
                IF mode \in {"LOGGER", "STDERROR", "DISABLED"} THEN "none"
                ELSE "unknown report mode", << >>)
    /\ UNCHANGED <<catalog, args, siblings, resolved, phase, paInitCount, paStreams, isSink,
                   interleaved, streamParams, stream, sendLabel, readyTime, backoffTime,
                   clock>>

setReportMode(mode) ==
    /\ phase = "live"
    /\ IF mode \in {"LOGGER", "STDERROR", "DISABLED"}
       THEN /\ reportLogger' = (mode = "LOGGER")
            /\ reportStderror' = (mode = "STDERROR")
            /\ Returned("setReportMode", <<mode>>, "none", << >>)
       ELSE /\ Returned("setReportMode", <<mode>>, "unknown report mode", << >>)
            /\ UNCHANGED <<reportLogger, reportStderror>>
    /\ UNCHANGED <<catalog, args, siblings, resolved, phase, paInitCount, paStreams, isSink, interleaved,
                   streamParams, stream, sendLabel, readyTime, backoffTime, clock>>

Backoffs == {-1, 0, 5}

\* milliseconds to the ticks (nanoseconds) of the high resolution clock
setBackoffTime(backoff) ==
    /\ phase = "live"
    /\ backoffTime' = backoff * 1000000
    /\ Returned("setBackoffTime", <<backoff>>, "none", << >>)
    /\ UNCHANGED <<catalog, args, siblings, resolved, phase, paInitCount, paStreams, isSink, interleaved,
                   streamParams, stream, sendLabel, readyTime, reportLogger,
                   reportStderror, clock>>

\* ------------------------------------------------------ activate, deactivate
\* Pa_StartStream before the host API is asked to start: the errors of the front end
Pa_StartStream_check(s) ==
    IF s = 0 THEN "paBadStreamPtr"
    ELSE IF paStreams[s].st = "active" THEN "paStreamIsNotStopped"
    ELSE "paNoError"

Pa_StopStream_check(s) ==
    IF s = 0 THEN "paBadStreamPtr"
    ELSE IF paStreams[s].st # "active" THEN "paStreamIsStopped"
    ELSE "paNoError"

\* an activate that does not look at the result of Pa_StartStream
activate_ignoresError ==
    /\ phase = "live"
    /\ clock < MaxClock
    /\ clock' = clock + 1
    /\ readyTime' = clock'
    /\ \E startOk \in BOOLEAN :
         LET err == Pa_StartStream_check(stream) IN
         /\ paStreams' = IF err = "paNoError" /\ startOk
                         THEN [paStreams EXCEPT ![stream].st = "active"]
                         ELSE paStreams
         /\ sendLabel' = TRUE
         /\ Returned("activate", << >>, "none",
                     <<Call("Pa_StartStream",
                            IF err = "paNoError" /\ ~startOk
                            THEN "paUnanticipatedHostError" ELSE err)>>)
    /\ UNCHANGED <<catalog, args, siblings, resolved, phase, paInitCount, isSink, interleaved, streamParams,
                   stream, reportLogger, reportStderror, backoffTime>>

activate ==
    /\ phase = "live"
    /\ clock < MaxClock
    /\ clock' = clock + 1
    /\ readyTime' = clock'
    /\ \E startOk \in BOOLEAN :
         LET err == Pa_StartStream_check(stream) IN
         IF err = "paNoError" /\ startOk
         THEN /\ paStreams' = [paStreams EXCEPT ![stream].st = "active"]
              /\ sendLabel' = TRUE
              /\ Returned("activate", << >>, "none", <<Call("Pa_StartStream", "paNoError")>>)
         ELSE /\ Returned("activate", << >>, "Pa_StartStream",
                          <<Call("Pa_StartStream",
                                 IF err = "paNoError" THEN "paUnanticipatedHostError" ELSE err)>>)
              /\ UNCHANGED <<paStreams, sendLabel>>
    /\ UNCHANGED <<catalog, args, siblings, resolved, phase, paInitCount, isSink, interleaved, streamParams,
                   stream, reportLogger, reportStderror, backoffTime>>

\* a deactivate that closes the stream it has stopped and drops the handle
deactivate_releasesHandle ==
    /\ phase = "live"
    /\ \E stopOk \in BOOLEAN :
         LET err == Pa_StopStream_check(stream) IN
         IF err = "paNoError" /\ stopOk
         THEN /\ paStreams' = [paStreams EXCEPT ![stream] = ClosedStream(@)]
              /\ stream' = 0
              /\ Returned("deactivate", << >>, "none",
                          <<Call("Pa_StopStream", "paNoError"), Call("Pa_CloseStream", "ok")>>)
         ELSE /\ Returned("deactivate", << >>, "Pa_StopStream",
                          <<Call("Pa_StopStream",
                                 IF err = "paNoError" THEN "paUnanticipatedHostError" ELSE err)>>)
              /\ UNCHANGED <<paStreams, stream>>
    /\ UNCHANGED <<catalog, args, siblings, resolved, phase, paInitCount, isSink,
                   interleaved, streamParams, sendLabel, readyTime, reportLogger,
                   reportStderror, backoffTime, clock>>

deactivate ==
    /\ phase = "live"
    /\ \E stopOk \in BOOLEAN :
         LET err == Pa_StopStream_check(stream) IN
         IF err = "paNoError" /\ stopOk
         THEN /\ paStreams' = [paStreams EXCEPT ![stream].st = "stopped"]
              /\ Returned("deactivate", << >>, "none", <<Call("Pa_StopStream", "paNoError")>>)
         ELSE /\ Returned("deactivate", << >>, "Pa_StopStream",
                          <<Call("Pa_StopStream",
                                 IF err = "paNoError" THEN "paUnanticipatedHostError" ELSE err)>>)
              /\ UNCHANGED paStreams
    /\ UNCHANGED <<catalog, args, siblings, resolved, phase, paInitCount, isSink, interleaved, streamParams,
                   stream, sendLabel, readyTime, reportLogger, reportStderror,
                   backoffTime, clock>>

\* ------------------------------------------------------------ specifications
Next ==
    \/ AudioBlock_ctor
    \/ AudioBlock_dtor
    \/ \E s \in FewSelectors : setupDevice(s)
    \/ \E r \in Rates : setupStream(r)
    \/ activate
    \/ deactivate

Spec == Init /\ [][Next]_vars

\* construction and destruction alone, over every catalog and argument
NextCtor ==
    \/ AudioBlock_ctor
    \/ AudioBlock_dtor

SpecCtor == InitCtor /\ [][NextCtor]_vars

\* the device resolver alone, over every catalog and selector
NextDevice ==
    \/ AudioBlock_ctor
    \/ \E s \in Selectors : setupDevice(s)

SpecDevice == InitDevice /\ [][NextDevice]_vars

\* every operation, the two setters included, on a one-device catalog
InitConfig ==
    InitWith({cat \in FewCatalogs : Len(cat.names) = 1},
             {a \in FewArgs : a.dtype = "float32" /\ a.chanMode = "INTERLEAVED"})

NextConfig ==
    \/ Next
    \/ \E m \in Modes : setReportMode(m)
    \/ \E b \in Backoffs : setBackoffTime(b)

SpecConfig == InitConfig /\ [][NextConfig]_vars

\* several instances: construction, destruction and stream setup of this
\* instance among the constructions and destructions of the others
NextMulti ==
    \/ AudioBlock_ctor
    \/ AudioBlock_dtor
    \/ \E r \in Rates : setupStream(r)
    \/ Sibling_ctor
    \/ Sibling_dtor

SpecMulti == Init /\ [][NextMulti]_vars

\* the lifecycle state of section 4.5, read off the handle and the native stream
State ==
    IF phase = "destroyed" THEN "Closed"
    ELSE IF stream = 0 THEN "Unopened"
    ELSE IF paStreams[stream].st = "opened" THEN "Opened"
    ELSE IF paStreams[stream].st = "active" THEN "Active"
    ELSE IF paStreams[stream].st = "stopped" THEN "Stopped"
    ELSE "Closed"

\* ------------------------------------------------------------------ claims
CallsOf(fn) == {i \in DOMAIN trace : trace[i].fn = fn}
Threw == lastErr \notin {"none", "fault"}
SupportedDTypes == {"float32", "int32", "int16", "int8", "uint8"}
DefaultForDirection == IF isSink THEN catalog.defaultOutput ELSE catalog.defaultInput

\* C1 (as claimed): after a setupStream call that threw, the instance holds no
\* stream handle.
C1_NoHandleAfterFailedSetupStream ==
    (lastOp = "setupStream" /\ Threw) => stream = 0

\* C2 (as claimed): at most one native stream opened by the instance is open at
\* any time, and once the instance is destroyed every stream it opened has been
\* closed exactly once.
C2_AtMostOneOpenHandle ==
    /\ Cardinality(OpenHandles) <= 1
    /\ phase = "destroyed" =>
         \A h \in 1..MaxOpens :
            paStreams[h].st # "none" => paStreams[h] = [st |-> "closed", closes |-> 1]

\* C3: activate succeeds only from Opened or Stopped and then reaches Active;
\* deactivate succeeds only from Active and then reaches Stopped; called in any
\* other state each throws (Pa_StartStream / Pa_StopStream) and the lifecycle
\* state stays what it was.
C3_ActivateDeactivateGuards ==
    [][ /\ (activate /\ lastErr' = "none") =>
              (State \in {"Opened", "Stopped"} /\ State' = "Active")
        /\ (activate /\ State \notin {"Opened", "Stopped"}) =>
              (lastErr' = "Pa_StartStream" /\ State' = State /\ stream' = stream)
        /\ (deactivate /\ lastErr' = "none") =>
              (State = "Active" /\ State' = "Stopped")
        /\ (deactivate /\ State # "Active") =>
              (lastErr' = "Pa_StopStream" /\ State' = State /\ stream' = stream)
      ]_vars

\* C3 witness: an activate on a stream that is already Active was refused
C3_Witness ==
    /\ lastOp = "activate"
    /\ lastErr = "Pa_StartStream"
    /\ trace = <<Call("Pa_StartStream", "paStreamIsNotStopped")>>
    /\ State = "Active"

\* C4 (as claimed): an activate or deactivate that throws leaves the lifecycle
\* state, the handle, the ready timestamp and the label flag as they were.
C4_FailedStartStopChangesNothing ==
    [][ ((activate \/ deactivate) /\ lastErr' # "none") =>
            /\ State' = State
            /\ stream' = stream
            /\ readyTime' = readyTime
            /\ sendLabel' = sendLabel
      ]_vars

\* C5 (as claimed): a setupDevice or setupStream call that throws leaves the
\* stream configuration (device index, suggested latency, ...) as it was.
\* Stated for the calls that read no null descriptor, so that a violation
\* rests on defined behaviour alone.
C5_FailedSetupKeepsConfiguration ==
    [][ (/\ lastOp' \in {"setupDevice", "setupStream"}
         /\ Threw'
         /\ (lastOp' = "setupStream" => ValidDevice(streamParams.device))) =>
            streamParams' = streamParams
      ]_vars

\* C6 (as claimed): no instance is constructed from a data type outside the
\* five supported ones.
C6_UnsupportedTypeRejected ==
    phase = "live" => args.dtype \in SupportedDTypes

\* C7 (as claimed): the empty selector, on a catalog with devices but without a
\* default device for the direction, makes setupDevice throw.
C7_NoDefaultRejected ==
    (/\ lastOp = "setupDevice"
     /\ lastArg = << >>
     /\ Pa_GetDeviceCount > 0
     /\ DefaultForDirection = paNoDevice) => lastErr # "none"

\* C8: on a non-empty catalog setupDevice takes one branch, chosen in the
\* order empty, all digits, name: the empty selector yields the default device
\* of the direction and asks for nothing else; an all-digit selector is read as
\* an index and no device name is looked at; any other selector is looked up
\* by name alone.
C8_SelectorClassification ==
    (lastOp = "setupDevice" /\ Pa_GetDeviceCount > 0) =>
        IF lastArg = << >>
        THEN /\ lastErr = "none"
             /\ streamParams.device = DefaultForDirection
             /\ CallsOf(IF isSink THEN "Pa_GetDefaultOutputDevice"
                        ELSE "Pa_GetDefaultInputDevice") # {}
             /\ CallsOf(IF isSink THEN "Pa_GetDefaultInputDevice"
                        ELSE "Pa_GetDefaultOutputDevice") = {}
             /\ CallsOf("Pa_GetDeviceInfo") = {}
        ELSE IF \A i \in 1..Len(lastArg) : lastArg[i] \in {"0", "1", "9"}
        THEN /\ lastErr # "No matching device"
             /\ lastErr = "none" => streamParams.device = stoi(lastArg)
             /\ CallsOf("Pa_GetDeviceInfo") = {}
             /\ CallsOf("Pa_GetDefaultOutputDevice") = {}
             /\ CallsOf("Pa_GetDefaultInputDevice") = {}
        ELSE /\ lastErr \in {"none", "No matching device"}
             /\ lastErr = "none" =>
                   /\ streamParams.device \in 0..(Pa_GetDeviceCount - 1)
                   /\ catalog.names[streamParams.device + 1] = lastArg
             /\ lastErr # "none" =>
                   \A i \in DOMAIN catalog.names : catalog.names[i] # lastArg
             /\ CallsOf("Pa_GetDeviceInfo") # {}
             /\ CallsOf("Pa_GetDefaultOutputDevice") = {}
             /\ CallsOf("Pa_GetDefaultInputDevice") = {}

\* C8 witness: the selector "1" on a catalog whose device 0 is named "1" and
\* whose device 1 is named "a" resolved to index 1
C8_Witness ==
    /\ lastOp = "setupDevice"
    /\ lastArg = <<"1">>
    /\ catalog.names = << <<"1">>, <<"a">> >>
    /\ lastErr = "none"
    /\ streamParams.device = 1

\* C9: on an empty catalog setupDevice throws "No devices available" for every
\* selector, having asked the native layer for the device count and nothing else.
C9_EmptyCatalogRejected ==
    (lastOp = "setupDevice" /\ Len(catalog.names) = 0) =>
        /\ lastErr = "No devices available"
        /\ trace = <<Call("Pa_GetDeviceCount", "")>>

\* C9 witness: the empty selector was refused on an empty catalog
C9_Witness ==
    /\ lastOp = "setupDevice"
    /\ lastArg = << >>
    /\ Len(catalog.names) = 0
    /\ lastErr = "No devices available"

\* C10 (as claimed): an all-digit selector of value n on a catalog of c > 0
\* devices succeeds with device index n when n < c, and otherwise (also when n
\* is too large to parse) throws the range exception and no other.
C10_NumericSelector ==
    (/\ lastOp = "setupDevice"
     /\ Pa_GetDeviceCount > 0
     /\ lastArg # << >>
     /\ AllDigits(lastArg)) =>
        IF stoi(lastArg) # -1 /\ stoi(lastArg) < Pa_GetDeviceCount
        THEN lastErr = "none" /\ streamParams.device = stoi(lastArg)
        ELSE ExceptionType(lastErr) = "Pothos::RangeException"

\* C11: the logger report and the stderr report are never both active, right
\* after construction included; a setReportMode call that returns leaves
\* exactly the report it names active (LOGGER: the logger alone, STDERROR:
\* stderr alone, DISABLED: neither), and no other step changes the two flags.
C11_ReportModeExclusive ==
    /\ [](~(reportLogger /\ reportStderror))
    /\ [](lastOp = "AudioBlock" => (~reportLogger /\ reportStderror))
    /\ [][ /\ \A m \in Modes :
                (setReportMode(m) /\ lastErr' = "none") =>
                    /\ reportLogger' = (m = "LOGGER")
                    /\ reportStderror' = (m = "STDERROR")
           /\ (phase = "live" /\ ~(lastOp' = "setReportMode" /\ lastErr' = "none")) =>
                UNCHANGED <<reportLogger, reportStderror>>
         ]_vars

\* C11 witness: setReportMode("LOGGER") returned and the logger alone reports
C11_Witness ==
    /\ lastOp = "setReportMode"
    /\ lastArg = <<"LOGGER">>
    /\ lastErr = "none"
    /\ reportLogger /\ ~reportStderror

\* C12: setReportMode with a string other than "LOGGER", "STDERROR" and
\* "DISABLED" throws the invalid argument exception and leaves both report
\* flags as they were.
C12_InvalidReportModeRejected ==
    [][ \A m \in Modes \ {"LOGGER", "STDERROR", "DISABLED"} :
            setReportMode(m) =>
                /\ lastErr' = "unknown report mode"
                /\ ExceptionType(lastErr') = "Pothos::InvalidArgumentException"
                /\ UNCHANGED <<reportLogger, reportStderror>>
      ]_vars

\* C12 witness: with the logger report on, setReportMode("logger") was refused
\* and the logger report is still on
C12_Witness ==
    /\ lastOp = "setReportMode"
    /\ lastArg = <<"logger">>
    /\ lastErr = "unknown report mode"
    /\ reportLogger /\ ~reportStderror

\* C13: the destructor of an instance that holds a handle closes the handle
\* first and terminates the native subsystem after it, exactly once each; the
\* terminate also follows a close that reported an error, which is logged and
\* not thrown.
C13_CloseBeforeTerminate ==
    (lastOp = "~AudioBlock" /\ stream # 0) =>
        /\ lastErr = "none"
        /\ Cardinality(CallsOf("Pa_CloseStream")) = 1
        /\ Cardinality(CallsOf("Pa_Terminate")) = 1
        /\ \A i \in CallsOf("Pa_CloseStream"), j \in CallsOf("Pa_Terminate") : i < j
        /\ trace[1].arg = "error" => CallsOf("poco_error") # {}
        /\ paStreams[stream].st = "closed"

\* C13 witness: an instance whose stream had been started was destroyed, the
\* close reported an error and the terminate followed
C13_Witness ==
    /\ lastOp = "~AudioBlock"
    /\ stream # 0
    /\ sendLabel
    /\ trace = <<Call("Pa_CloseStream", "error"), Call("poco_error", "Pa_CloseStream"),
                 Call("Pa_Terminate", "ok")>>

\* C14: whatever the interleaving of constructions (that return or throw) and
\* destructions of this instance and of the others, the native subsystem's count
\* of initializations not yet terminated equals the number of live instances
\* (as long as the process has not faulted).
C14_InitTerminatePaired ==
    phase # "crashed" =>
        paInitCount = siblings + (IF phase = "live" THEN 1 ELSE 0)

\* C14 witness: this instance is destroyed, one other instance lives, and the
\* construction of a further one has just failed in Pa_Initialize
C14_Witness ==
    /\ phase = "destroyed"
    /\ siblings = 1
    /\ lastOp = "AudioBlock (sibling)"
    /\ lastErr = "Pa_Initialize"
    /\ paInitCount = 1

\* C15 (as claimed): while the instance holds an open stream, the device index
\* was set by a setupDevice call that returned and is a valid catalog index;
\* and no setupStream call runs (fetches a descriptor, computes the latency or
\* opens) on a device index that is unset, the no-device value or out of range.
C15_DeviceResolvedBeforeOpen ==
    /\ (phase = "live" /\ StreamIsOpen(stream)) =>
          (resolved /\ ValidDevice(streamParams.device))
    /\ lastOp = "setupStream" =>
          (resolved /\ ValidDevice(streamParams.device))

\* C16: in a setupStream call the native open comes after the format check and
\* at most once, never in a call whose format check reported an error; the
\* check and the open carry the stream parameters on the output side when
\* isSink and on the input side otherwise, and none on the other side.
C16_CheckBeforeOpen ==
    lastOp = "setupStream" =>
        /\ \A i \in CallsOf("Pa_OpenStream") :
              \E j \in CallsOf("Pa_IsFormatSupported") : j < i
        /\ Cardinality(CallsOf("Pa_OpenStream")) <= 1
        /\ Pa_IsFormatSupported(streamParams, lastArg[1]) # "paNoError" =>
              CallsOf("Pa_OpenStream") = {}
        /\ \A i \in CallsOf("Pa_OpenStream") \cup CallsOf("Pa_IsFormatSupported") :
              trace[i].arg = (IF isSink THEN "output" ELSE "input")

\* C16 witness: a sink's setupStream checked the format on the output side and
\* then opened the stream on the output side
C16_Witness ==
    /\ lastOp = "setupStream"
    /\ lastErr = "none"
    /\ isSink
    /\ \E j, i \in DOMAIN trace :
          /\ j < i
          /\ trace[j] = Call("Pa_IsFormatSupported", "output")
          /\ trace[i] = Call("Pa_OpenStream", "output")

\* C17: once constructed, the instance keeps its sample format and its channel
\* count through every call (setupDevice, setupStream, setReportMode,
\* setBackoffTime, activate, deactivate), whether the call returns or throws;
\* the channel count is the constructor's numChans.
C17_FormatFixedAfterConstruction ==
    /\ [](phase = "live" => streamParams.channelCount = args.numChans)
    /\ [][ phase = "live" =>
             /\ streamParams'.sampleFormat = streamParams.sampleFormat
             /\ streamParams'.channelCount = streamParams.channelCount
         ]_vars

\* C17 witness: after a device was resolved and a stream opened and started, a
\* setReportMode call was refused, and the format is the constructor's float32
C17_Witness ==
    /\ lastOp = "setReportMode"
    /\ lastErr = "unknown report mode"
    /\ resolved
    /\ State = "Active"
    /\ streamParams.sampleFormat = {"paFloat32"}
    /\ streamParams.channelCount = 2

\* C18: a selector that is neither empty nor all digits, on a catalog with
\* devices, sets the device index to the smallest index whose name equals the
\* selector exactly (also when several devices have that name); when no name
\* equals it the call throws "No matching device" and the device index stays.
C18_NameLookupFirstMatch ==
    [][ (/\ lastOp' = "setupDevice"
         /\ setupDevice(lastArg')
         /\ lastArg' # << >>
         /\ \E i \in 1..Len(lastArg') : lastArg'[i] \notin {"0", "1", "9"}
         /\ Len(catalog.names) > 0) =>
             LET matches == {i \in 0..(Len(catalog.names) - 1) :
                                catalog.names[i + 1] = lastArg'}
             IN  IF matches # {}
                 THEN /\ lastErr' = "none"
                      /\ streamParams'.device \in matches
                      /\ \A j \in matches : streamParams'.device <= j
                 ELSE /\ lastErr' = "No matching device"
                      /\ ExceptionType(lastErr') = "Pothos::NotFoundException"
                      /\ streamParams'.device = streamParams.device
      ]_vars

\* C18 witness: two devices are named "a" and the selector "a" resolved to
\* index 0
C18_Witness ==
    /\ lastOp = "setupDevice"
    /\ lastArg = <<"a">>
    /\ catalog.names = << <<"a">>, <<"a">> >>
    /\ lastErr = "none"
    /\ streamParams.device = 0

\* C19: setupDevice, setReportMode and setBackoffTime, returning or throwing,
\* leave the handle and the native streams (so the lifecycle state) as they
\* were; the handle leaves null only in a setupStream that returns; a
\* deactivate that returns keeps the handle and leaves its stream Stopped.
C19_HandleFrame ==
    [][ /\ lastOp' \in {"setupDevice", "setReportMode", "setBackoffTime"} =>
              (stream' = stream /\ paStreams' = paStreams /\ State' = State)
        /\ (stream = 0 /\ stream' # 0) =>
              (lastOp' = "setupStream" /\ lastErr' = "none")
        /\ (deactivate /\ lastErr' = "none") =>
              (stream' = stream /\ stream' # 0 /\ State' = "Stopped")
      ]_vars

\* C19 witness: a deactivate returned and the instance still holds the handle,
\* now Stopped
C19_Witness ==
    /\ lastOp = "deactivate"
    /\ lastErr = "none"
    /\ stream # 0
    /\ State = "Stopped"

====
